---- MODULE Spec2Model ----
(***************************************************************************)
(* Model of the DAPI student-records application (src/app.py): the five    *)
(* tables, the request handlers that change them, and the derived-value    *)
(* helpers (working days, attendance, CGPA, placement score).              *)
(*                                                                         *)
(* Numbers.  A Python float is a record [k, v]: k = "fin" with v the value *)
(* in thousandths (8.5 is Fin(8500)), or k = "inf" / "ninf" / "nan"; SQL   *)
(* NULL and Python None are NULL.  The values averaged are multiples of    *)
(* 0.25, or one multiple of 0.125 alone, so every sum is exact in binary   *)
(* and a tie of the "%.2f" rounding is a dyadic number that Python rounds  *)
(* half-to-even, as Round2 does here.                                      *)
(* Integers (present_days, arrear_count, levels_completed, ids) are plain  *)
(* integers.  A calendar date is its proleptic ordinal (date.toordinal()). *)
(***************************************************************************)
EXTENDS Integers, Sequences, FiniteSets, TLC

\* db: the tables; conns: the requests in flight, each on its own connection
\* (SpecTxn); fnCall, fnResult: a helper applied to arguments of its own (SpecCgpa,
\* SpecScore, SpecDays).
\* The session is a cookie the browser holds and sends with each request: it is an
\* input of the request, one of the cookies a login can have issued (Cookies).
VARIABLES db, conns, fnCall, fnResult

vars == <<db, conns, fnCall, fnResult>>

-----------------------------------------------------------------------------
(* Bounds of the model *)

\* child rows (skills + achievements + certifications) inserted in a run of Spec
MaxInserts == 1
\* and in a run of SpecTxn
MaxTxnInserts == 1
\* rows of each child table in the tables handed to calc_placement_score in SpecScore
MaxFnSkills == 11
MaxFnAch == 5
MaxFnCert == 6
\* days after 2026-01-01 in the calendar window of SpecDays
DaySpan == 15

\* sem1 .. sem8
NumSems == 8

-----------------------------------------------------------------------------
(* Floats, None / NULL *)

NULL == [k |-> "null", v |-> 0]
Fin(x) == [k |-> "fin", v |-> x]
PINF == [k |-> "inf", v |-> 0]
NINF == [k |-> "ninf", v |-> 0]
NAN == [k |-> "nan", v |-> 0]

IsFin(x) == x.k = "fin"

\* x + y on floats
FAdd(x, y) ==
  IF x.k = "nan" \/ y.k = "nan" THEN NAN
  ELSE IF (x.k = "inf" /\ y.k = "ninf") \/ (x.k = "ninf" /\ y.k = "inf") THEN NAN
  ELSE IF x.k = "inf" \/ y.k = "inf" THEN PINF
  ELSE IF x.k = "ninf" \/ y.k = "ninf" THEN NINF
  ELSE Fin(x.v + y.v)

\* x * c for a finite c > 0 given as a ratio num / den that divides exactly
FScale(x, num, den) ==
  IF IsFin(x) THEN Fin((x.v * num) \div den) ELSE x

\* x < y on floats: every comparison with nan is false
FLt(x, y) ==
  IF x.k = "nan" \/ y.k = "nan" THEN FALSE
  ELSE IF x.k = "ninf" THEN y.k # "ninf"
  ELSE IF y.k = "inf" THEN x.k # "inf"
  ELSE IF x.k = "inf" \/ y.k = "ninf" THEN FALSE
  ELSE x.v < y.v

\* Python's min(a, b) and max(a, b): the first argument unless the second beats it
PyMin(a, b) == IF FLt(b, a) THEN b ELSE a
PyMax(a, b) == IF FLt(a, b) THEN b ELSE a

\* truthiness of a float or None: None and 0.0 are falsy, nan is truthy
Truthy(x) == x.k # "null" /\ ~(x.k = "fin" /\ x.v = 0)

\* the quotient num / den (den > 0) rounded half-to-even to an integer
RoundHalfEven(num, den) ==
  LET q == num \div den
      r == num % den
  IN  IF 2 * r < den THEN q
      ELSE IF 2 * r > den THEN q + 1
      ELSE IF q % 2 = 0 THEN q ELSE q + 1

\* float(f"{x:.2f}"): x rounded to 2 decimals (a multiple of 10 thousandths)
Round2(x) == IF IsFin(x) THEN Fin(10 * RoundHalfEven(x.v, 10)) ELSE x

\* float(f"{(s / n):.2f}") for a float s and a count n > 0
Round2Div(s, n) == IF IsFin(s) THEN Fin(10 * RoundHalfEven(s.v, 10 * n)) ELSE s

Min2(a, b) == IF b < a THEN b ELSE a
Max2(a, b) == IF a < b THEN b ELSE a

-----------------------------------------------------------------------------
(* Raw form values: what request.form.get() returns for a numeric field *)

RawAbsent == [t |-> "absent", f |-> NULL]
RawEmpty == [t |-> "empty", f |-> NULL]
RawJunk == [t |-> "junk", f |-> NULL]
RawNum(f) == [t |-> "num", f |-> f]

\* int(float(x)) truncates toward zero
Trunc(v) == IF v >= 0 THEN v \div 1000 ELSE 0 - ((0 - v) \div 1000)

safe_int(x, default) ==
  IF x.t # "num" THEN default
  ELSE IF IsFin(x.f) THEN Trunc(x.f.v)
  ELSE default

safe_float(x) == IF x.t # "num" THEN NULL ELSE x.f

\* a REAL column: SQLite stores a NaN as NULL
SqlReal(f) == IF f.k = "nan" THEN NULL ELSE f

-----------------------------------------------------------------------------
(* Calendar dates *)

IsLeap(y) == (y % 4 = 0 /\ y % 100 # 0) \/ y % 400 = 0

DaysInMonth(y, m) ==
  IF m = 2 THEN (IF IsLeap(y) THEN 29 ELSE 28)
  ELSE IF m \in {4, 6, 9, 11} THEN 30 ELSE 31

RECURSIVE DaysBeforeMonth(_, _)
DaysBeforeMonth(y, m) ==
  IF m <= 1 THEN 0 ELSE DaysBeforeMonth(y, m - 1) + DaysInMonth(y, m - 1)

\* date(y, m, d).toordinal()
Ordinal(y, m, d) ==
  LET p == y - 1
  IN  p * 365 + (p \div 4) - (p \div 100) + (p \div 400) + DaysBeforeMonth(y, m) + d

\* date.weekday(): Monday is 0, Sunday is 6
Weekday(d) == (d + 6) % 7

\* The text of a date field: fmt says how it is written ("ymd" is digits-digits-
\* digits, the only form "%Y-%m-%d" accepts), y, m, d are its numbers.
DateText(fmt, y, m, d) == [fmt |-> fmt, y |-> y, m |-> m, d |-> d]
\* the ordinal of no date (ordinals start at 1)
NoDate == Ordinal(1, 1, 1) - 1

DateOk(s) ==
  /\ s.fmt = "ymd"
  /\ s.y \in 1..9999
  /\ s.m \in 1..12
  /\ s.d \in 1..DaysInMonth(s.y, s.m)

\* datetime.strptime(s, "%Y-%m-%d").date(): NoDate stands for the ValueError
parse_ymd(s) == IF DateOk(s) THEN Ordinal(s.y, s.m, s.d) ELSE NoDate

RECURSIVE CountWorking(_, _, _)
CountWorking(start_date, i, delta) ==
  IF i >= delta THEN 0
  ELSE (IF Weekday(start_date + i) # 6 THEN 1 ELSE 0)
       + CountWorking(start_date, i + 1, delta)

\* (the range taken without its last day)
college_working_days_excl(start_date, end_date) ==
  IF end_date < start_date THEN 0
  ELSE CountWorking(start_date, 0, end_date - start_date)

college_working_days(start_date, end_date) ==
  IF end_date < start_date THEN 0
  ELSE CountWorking(start_date, 0, (end_date - start_date) + 1)

\* (the percentage left as rounded, without max and min)
calc_attendance_noclamp(student_row, today) ==
  LET parsed == parse_ymd(student_row.semester_start)
      start == IF parsed = NoDate THEN today ELSE parsed
      total_days == college_working_days(start, today)
      present == student_row.present_days
      pct == IF total_days <= 0 THEN Fin(0)
             ELSE Round2Div(Fin(present * 100000), total_days)
  IN  <<total_days, present, pct>>

\* (total_days, present, pct) for a student row on the day `today`
calc_attendance(student_row, today) ==
  LET parsed == parse_ymd(student_row.semester_start)
      start == IF parsed = NoDate THEN today ELSE parsed
      total_days == college_working_days(start, today)
      present == student_row.present_days
      pct == IF total_days <= 0 THEN Fin(0)
             ELSE Round2Div(Fin(present * 100000), total_days)
  IN  <<total_days, present, PyMax(Fin(0), PyMin(Fin(100000), pct))>>

-----------------------------------------------------------------------------
(* CGPA *)

\* the non-None semester values, in the order sem1 .. sem8
RECURSIVE SemList(_, _)
SemList(sems, k) ==
  IF k > NumSems THEN <<>>
  ELSE (IF sems[k].k # "null" THEN <<sems[k]>> ELSE <<>>) \o SemList(sems, k + 1)

\* sum(list): starts from 0 and adds left to right
RECURSIVE FSum(_)
FSum(list) ==
  IF list = <<>> THEN Fin(0)
  ELSE FAdd(FSum(SubSeq(list, 1, Len(list) - 1)), list[Len(list)])

\* (the mean taken over all eight semesters)
calc_cgpa_div8(student_row) ==
  LET sems == SemList(student_row.sems, 1)
  IN  IF sems = <<>> THEN NULL ELSE Round2Div(FSum(sems), NumSems)

calc_cgpa(student_row) ==
  LET sems == SemList(student_row.sems, 1)
  IN  IF sems = <<>> THEN NULL ELSE Round2Div(FSum(sems), Len(sems))

-----------------------------------------------------------------------------
(* E-mail addresses.  The text of an address is local ++ suffix, written in  *)
(* upper case when `upper`, with surrounding blanks when `pad`.              *)

Email(local, suffix) == [local |-> local, suffix |-> suffix, upper |-> FALSE, pad |-> FALSE]
NoEmail == Email("", "")

Strip(e) == [e EXCEPT !.pad = FALSE]
Lower(e) == [e EXCEPT !.upper = FALSE]
IsBlank(e) == e.local = "" /\ e.suffix = "" /\ ~e.pad
EndsWith(e, suffix) == ~e.pad /\ ~e.upper /\ e.suffix = suffix /\ suffix # ""

\* (the suffix looked for whatever the role)
validate_email_role_anyrole(email, role) ==
  LET e == Lower(Strip(email))
  IN  EndsWith(e, ".student@gmail.com") \/ EndsWith(e, ".staff@gmail.com")

validate_email_role(email, role) ==
  LET e == Lower(Strip(email))
  IN  IF role = "student" THEN EndsWith(e, ".student@gmail.com")
      ELSE IF role = "staff" THEN EndsWith(e, ".staff@gmail.com")
      ELSE FALSE

-----------------------------------------------------------------------------
(* Placement score *)

RECURSIVE SumLevels(_)
SumLevels(rows) ==
  IF rows = {} THEN 0
  ELSE LET r == CHOOSE x \in rows : TRUE
       IN  r.levels_completed + SumLevels(rows \ {r})

RowsOf(table, student_email) == {r \in table : r.student_email = student_email}

\* (the score without its lower clamp)
ScoreOf_noclamp(student_row, skill_total, ach_count, cert_count) ==
  LET c == calc_cgpa(student_row)
      cg == IF Truthy(c) THEN c ELSE Fin(0)
      cg_part == FScale(cg, 5, 1)
      skill_part == Min2(30000, skill_total * 300)
      ach_part == Min2(10000, ach_count * 2500)
      cert_part == Min2(10000, cert_count * 2000)
      arrears == Max2(0, student_row.arrear_count)
      penalty == Min2(40000, arrears * 10000)
      score_val == FAdd(cg_part, Fin(skill_part + ach_part + cert_part - penalty))
      clamped == PyMin(Fin(100000), score_val)
  IN  Round2(clamped)

\* (an achievement weighed 2.0)
ScoreOf_ach2(student_row, skill_total, ach_count, cert_count) ==
  LET c == calc_cgpa(student_row)
      cg == IF Truthy(c) THEN c ELSE Fin(0)
      cg_part == FScale(cg, 5, 1)
      skill_part == Min2(30000, skill_total * 300)
      ach_part == Min2(10000, ach_count * 2000)
      cert_part == Min2(10000, cert_count * 2000)
      arrears == Max2(0, student_row.arrear_count)
      penalty == Min2(40000, arrears * 10000)
      score_val == FAdd(cg_part, Fin(skill_part + ach_part + cert_part - penalty))
      clamped == PyMax(Fin(0), PyMin(Fin(100000), score_val))
  IN  Round2(clamped)

\* (the penalty without its cap)
ScoreOf_uncapped(student_row, skill_total, ach_count, cert_count) ==
  LET c == calc_cgpa(student_row)
      cg == IF Truthy(c) THEN c ELSE Fin(0)
      cg_part == FScale(cg, 5, 1)
      skill_part == Min2(30000, skill_total * 300)
      ach_part == Min2(10000, ach_count * 2500)
      cert_part == Min2(10000, cert_count * 2000)
      arrears == Max2(0, student_row.arrear_count)
      penalty == arrears * 10000
      score_val == FAdd(cg_part, Fin(skill_part + ach_part + cert_part - penalty))
      clamped == PyMax(Fin(0), PyMin(Fin(100000), score_val))
  IN  Round2(clamped)

\* the score from the row and the three aggregates (calc_placement_score after its SELECTs)
ScoreOf(student_row, skill_total, ach_count, cert_count) ==
  LET c == calc_cgpa(student_row)
      cg == IF Truthy(c) THEN c ELSE Fin(0)
      cg_part == FScale(cg, 5, 1)
      skill_part == Min2(30000, skill_total * 300)
      ach_part == Min2(10000, ach_count * 2500)
      cert_part == Min2(10000, cert_count * 2000)
      arrears == Max2(0, student_row.arrear_count)
      penalty == Min2(40000, arrears * 10000)
      score_val == FAdd(cg_part, Fin(skill_part + ach_part + cert_part - penalty))
      clamped == PyMax(Fin(0), PyMin(Fin(100000), score_val))
  IN  Round2(clamped)

calc_placement_score(d, student_email, student_row) ==
  ScoreOf(student_row,
          SumLevels(RowsOf(d.skills, student_email)),
          Cardinality(RowsOf(d.achievements, student_email)),
          Cardinality(RowsOf(d.certifications, student_email)))

\* (the new score added to the stored one)
refresh_score_accumulate(d, student_email) ==
  LET found == {s \in d.students : s.user_email = student_email}
  IN  IF found = {} THEN d
      ELSE LET student == CHOOSE s \in found : TRUE
               score == FAdd(student.placement_score, calc_placement_score(d, student_email, student))
           IN  [d EXCEPT !.students =
                  {IF s.user_email = student_email
                     THEN [s EXCEPT !.placement_score = score] ELSE s : s \in d.students}]

refresh_score(d, student_email) ==
  LET found == {s \in d.students : s.user_email = student_email}
  IN  IF found = {} THEN d
      ELSE LET student == CHOOSE s \in found : TRUE
               score == calc_placement_score(d, student_email, student)
           IN  [d EXCEPT !.students =
                  {IF s.user_email = student_email
                     THEN [s EXCEPT !.placement_score = score] ELSE s : s \in d.students}]

-----------------------------------------------------------------------------
(* The database: five tables and sqlite_sequence (the AUTOINCREMENT counters). *)
(* A student row's `name` stands for the required text columns that every      *)
(* statement writes together and checks together with all([...]): student_id,  *)
(* name, contact_email, phone, parent_phone, address, department, mentor_name, *)
(* tenth, twelfth.                                                             *)

EmptyDb ==
  [users |-> {}, students |-> {}, skills |-> {}, achievements |-> {},
   certifications |-> {},
   seq |-> [students |-> 0, skills |-> 0, achievements |-> 0, certifications |-> 0]]

\* generate_password_hash / check_password_hash
generate_password_hash(password) == <<"hash", password>>
check_password_hash(pwhash, password) == pwhash = <<"hash", password>>

StudentByEmail(d, email) == {s \in d.students : s.user_email = email}
StudentById(d, sid) == {s \in d.students : s.id = sid}

\* (the UPDATE without its WHERE: every row is written)
UpdateStudents_all(d, which, fields) ==
  [d EXCEPT !.students =
     {[c \in DOMAIN s |-> IF c \in DOMAIN fields THEN fields[c] ELSE s[c]] : s \in d.students}]

\* (the update that also clears the join key of the rows it writes)
UpdateStudents_rekey(d, which, fields) ==
  [d EXCEPT !.students =
     {IF s \in which
        THEN [c \in DOMAIN s |-> IF c \in DOMAIN fields THEN fields[c]
                                  ELSE IF c = "user_email" THEN NoEmail ELSE s[c]]
        ELSE s : s \in d.students}]

\* UPDATE students SET <fields> WHERE <the rows of `which`>
UpdateStudents(d, which, fields) ==
  [d EXCEPT !.students =
     {IF s \in which
        THEN [c \in DOMAIN s |-> IF c \in DOMAIN fields THEN fields[c] ELSE s[c]]
        ELSE s : s \in d.students}]

ChildInserts(d) == d.seq.skills + d.seq.achievements + d.seq.certifications

-----------------------------------------------------------------------------
(* Sessions and pages *)

NoSession == [role |-> "", email |-> NoEmail]

\* (the gate that any logged-in session passes)
require_role_any(sess, role) == sess.role # ""

require_role(sess, role) == sess.role = role

BlankPage ==
  [view |-> "", message |-> "", error |-> "", subject |-> NoEmail,
   score |-> NULL, cgpa |-> NULL, attendance |-> <<0, 0, NULL>>, listed |-> {}]

Redirect(to) == [BlankPage EXCEPT !.view = to]

\* the day a request is served
Todays == {Ordinal(2026, 1, 12)}

\* (the score computed for the page instead of read from the row)
RenderPortal_recompute(view, student, today, message, error) ==
  [BlankPage EXCEPT
     !.view = view, !.message = message, !.error = error,
     !.subject = student.user_email,
     !.score = calc_placement_score(db, student.user_email, student),
     !.cgpa = calc_cgpa(student),
     !.attendance = calc_attendance(student, today)]

\* render_template of student_portal.html / staff_student_portal.html after the reload
RenderPortal(view, student, today, message, error) ==
  [BlankPage EXCEPT
     !.view = view, !.message = message, !.error = error,
     !.subject = student.user_email,
     !.score = student.placement_score,
     !.cgpa = calc_cgpa(student),
     !.attendance = calc_attendance(student, today)]

-----------------------------------------------------------------------------
(* Form inputs *)

Day1 == DateText("ymd", 2026, 1, 1)
Day5 == DateText("ymd", 2026, 1, 5)
BadDate == DateText("dmy", 2026, 1, 1)
EmptyDate == DateText("empty", 0, 0, 0)

Num(x) == RawNum(Fin(x))
NoSems == [i \in 1..NumSems |-> RawEmpty]

\* the residence and text fields of a form
ProfileParts ==
  { [name |-> "n", scholar_type |-> "Day Scholar", warden_name |-> "w", room_no |-> "r"],
    [name |-> "n", scholar_type |-> "Hosteller", warden_name |-> "w", room_no |-> "r"],
    [name |-> "n", scholar_type |-> "Hosteller", warden_name |-> "w", room_no |-> ""],
    [name |-> "n", scholar_type |-> "Other", warden_name |-> "w", room_no |-> ""],
    [name |-> "", scholar_type |-> "Day Scholar", warden_name |-> "", room_no |-> ""] }

\* the academic fields of a form
AcademicParts ==
  { [semester_start |-> Day1, present_days |-> Num(3000), arrear_count |-> Num(1000),
     sems |-> [NoSems EXCEPT ![1] = Num(8000), ![2] = Num(9000)]],
    [semester_start |-> Day5, present_days |-> Num(-2000), arrear_count |-> Num(7900),
     sems |-> [NoSems EXCEPT ![3] = Num(-5000), ![8] = RawNum(NAN)]],
    [semester_start |-> BadDate, present_days |-> Num(3000), arrear_count |-> RawJunk,
     sems |-> [NoSems EXCEPT ![1] = Num(25000)]] }

BlankProfile == [name |-> "", scholar_type |-> "Day Scholar", warden_name |-> "", room_no |-> ""]
BlankAcademic ==
  [semester_start |-> EmptyDate, present_days |-> RawAbsent, arrear_count |-> RawAbsent,
   sems |-> [i \in 1..NumSems |-> RawAbsent]]

\* a POST to /student or /staff/student/<sid>
PortalForm(form_type, p, a, text, levels, id) ==
  [method |-> "POST", form_type |-> form_type,
   name |-> p.name, scholar_type |-> p.scholar_type,
   warden_name |-> p.warden_name, room_no |-> p.room_no,
   semester_start |-> a.semester_start, present_days |-> a.present_days,
   arrear_count |-> a.arrear_count, sems |-> a.sems,
   text |-> text, levels_completed |-> levels, id |-> id]

GetForm == [PortalForm("", BlankProfile, BlankAcademic, "", RawAbsent, RawAbsent)
              EXCEPT !.method = "GET"]

LevelInputs == {Num(15500), Num(-2500)}
IdInputs == {Num(1000 * i) : i \in 1..Max2(MaxInserts, MaxTxnInserts)} \cup {RawJunk}

AddForms(form_type) ==
  {PortalForm(form_type, BlankProfile, BlankAcademic, text, lv, RawAbsent) :
     text \in {"", "t"}, lv \in (IF form_type = "skill_add" THEN LevelInputs ELSE {RawAbsent})}

DeleteForms(form_type) ==
  {PortalForm(form_type, BlankProfile, BlankAcademic, "", RawAbsent, id) : id \in IdInputs}

StudentForms ==
  {GetForm, PortalForm("unknown", BlankProfile, BlankAcademic, "", RawAbsent, RawAbsent)}
  \cup {PortalForm("profile", p, BlankAcademic, "", RawAbsent, RawAbsent) : p \in ProfileParts}
  \cup {PortalForm("academics", BlankProfile, a, "", RawAbsent, RawAbsent) : a \in AcademicParts}
  \cup AddForms("skill_add") \cup AddForms("ach_add") \cup AddForms("cert_add")
  \cup DeleteForms("skill_delete") \cup DeleteForms("ach_delete") \cup DeleteForms("cert_delete")

\* the (profile, academics) pairs of a form that carries both: every pair that is
\* written, and each part that is rejected beside one that is not
FirstProfile == [name |-> "n", scholar_type |-> "Day Scholar", warden_name |-> "w", room_no |-> "r"]
FirstAcademic ==
  [semester_start |-> Day1, present_days |-> Num(3000), arrear_count |-> Num(1000),
   sems |-> [NoSems EXCEPT ![1] = Num(8000), ![2] = Num(9000)]]

ProfileOk(p) ==
  p.name # "" /\ ~(p.scholar_type = "Hosteller" /\ (p.warden_name = "" \/ p.room_no = ""))
AcademicOk(a) == DateOk(a.semester_start)

BothParts ==
  {<<p, a>> \in ProfileParts \X (AcademicParts \cup {BlankAcademic}) :
     \/ ProfileOk(p) /\ AcademicOk(a)
     \/ p = FirstProfile /\ ~AcademicOk(a)
     \/ a = FirstAcademic /\ ~ProfileOk(p)}

StaffForms ==
  {GetForm, PortalForm("unknown", BlankProfile, BlankAcademic, "", RawAbsent, RawAbsent)}
  \cup {PortalForm("edit", pa[1], pa[2], "", RawAbsent, RawAbsent) : pa \in BothParts}
  \cup AddForms("skill_add") \cup DeleteForms("skill_delete")

Upper(e) == [e EXCEPT !.upper = TRUE, !.pad = TRUE]

StudentEmails == {Email("a", ".student@gmail.com"), Email("b", ".student@gmail.com")}
StaffEmails == {Email("x", ".staff@gmail.com")}
EmailInputs ==
  StudentEmails \cup StaffEmails
  \cup {Upper(Email("a", ".student@gmail.com")), Email("c", "@gmail.com"), NoEmail}

Rolls == {"r1", "r2"}
Passwords == {"pw"}

RegisterForm(e, pw, r, p, a) ==
  [method |-> "POST", login_email |-> e, login_pass |-> pw, roll |-> r,
   name |-> p.name, scholar_type |-> p.scholar_type,
   warden_name |-> p.warden_name, room_no |-> p.room_no,
   semester_start |-> a.semester_start, present_days |-> a.present_days,
   arrear_count |-> a.arrear_count, sems |-> a.sems]

\* who registers with which roll number
EmailRolls ==
  { <<Email("a", ".student@gmail.com"), "r1">>,
    <<Email("b", ".student@gmail.com"), "r1">>,
    <<Email("b", ".student@gmail.com"), "r2">> }

RegisterForms ==
  {RegisterForm(er[1], "pw", er[2], pa[1], pa[2]) : er \in EmailRolls, pa \in BothParts}
  \cup {RegisterForm(e, "pw", "r2", FirstProfile, FirstAcademic) : e \in EmailInputs}
  \cup {RegisterForm(Email("b", ".student@gmail.com"), "", "r2", FirstProfile, FirstAcademic),
        RegisterForm(Email("b", ".student@gmail.com"), "pw", "", FirstProfile, FirstAcademic)}

StaffRegisterForms ==
  {[method |-> "POST", email |-> e, password |-> "pw"] : e \in EmailInputs}
  \cup {[method |-> "POST", email |-> Email("x", ".staff@gmail.com"), password |-> ""]}

LoginForm(role, email, password) ==
  [method |-> "POST", role |-> role, email |-> email, password |-> password]

LoginForms ==
  {LoginForm(r, e, pw) : r \in {"student", "staff"},
                         e \in StudentEmails \cup StaffEmails
                               \cup {Upper(Email("a", ".student@gmail.com"))},
                         pw \in Passwords \cup {"bad"}}
  \cup {LoginForm("", Email("a", ".student@gmail.com"), "pw"),
        LoginForm("student", NoEmail, "pw"),
        LoginForm("student", Email("a", ".student@gmail.com"), "")}

-----------------------------------------------------------------------------
(* What a POST branch does before any refresh_score: the tables after its     *)
(* commit, the message or error it sets, and whether it goes on to call        *)
(* refresh_score.                                                              *)

Outcome(d, message, error, refresh) ==
  [db |-> d, message |-> message, error |-> error, refresh |-> refresh]

IsHosteller(f) == f.scholar_type = "Hosteller"

\* (the room number not looked at)
HostellerIncomplete_warden_only(f) == IsHosteller(f) /\ f.warden_name = ""

HostellerIncomplete(f) == IsHosteller(f) /\ (f.warden_name = "" \/ f.room_no = "")

\* (warden_name and room_no written as submitted)
ProfileColumns_as_submitted(f) ==
  [name |-> f.name, scholar_type |-> f.scholar_type,
   warden_name |-> f.warden_name, room_no |-> f.room_no]

ProfileColumns(f) ==
  [name |-> f.name, scholar_type |-> f.scholar_type,
   warden_name |-> IF IsHosteller(f) THEN f.warden_name ELSE "",
   room_no |-> IF IsHosteller(f) THEN f.room_no ELSE ""]

AcademicColumns(f) ==
  [semester_start |-> f.semester_start,
   present_days |-> Max2(0, safe_int(f.present_days, 0)),
   arrear_count |-> Max2(0, safe_int(f.arrear_count, 0)),
   sems |-> [i \in 1..NumSems |-> SqlReal(safe_float(f.sems[i]))]]

\* (the insert that leaves student_email empty)
InsertChild_unowned(d, table, row) ==
  LET id == d.seq[table] + 1
      new == [c \in DOMAIN row \cup {"id"} |->
                IF c = "id" THEN id ELSE IF c = "student_email" THEN NoEmail ELSE row[c]]
  IN  [d EXCEPT ![table] = @ \cup {new}, !.seq[table] = id]

\* INSERT INTO skills / achievements / certifications
InsertChild(d, table, row) ==
  LET id == d.seq[table] + 1
      new == [c \in DOMAIN row \cup {"id"} |-> IF c = "id" THEN id ELSE row[c]]
  IN  [d EXCEPT ![table] = @ \cup {new}, !.seq[table] = id]

\* (the delete by id alone)
DeleteChild_any_owner(d, table, id, student_email) ==
  [d EXCEPT ![table] = {r \in @ : ~(r.id = id)}]

\* DELETE FROM <table> WHERE id=? AND student_email=?
DeleteChild(d, table, id, student_email) ==
  [d EXCEPT ![table] = {r \in @ : ~(r.id = id /\ r.student_email = student_email)}]

\* (the levels without the upper bound)
SkillLevels_uncapped(f) == Max2(0, safe_int(f.levels_completed, 0))

SkillLevels(f) == Max2(0, Min2(10, safe_int(f.levels_completed, 0)))

\* student_portal, the branches of form_type
student_post(d, email, f) ==
  CASE f.method # "POST" -> Outcome(d, "", "", FALSE)
    [] f.method = "POST" /\ f.form_type = "profile" ->
         IF f.name = "" THEN Outcome(d, "", "Fill all required fields", FALSE)
         ELSE IF HostellerIncomplete(f)
           THEN Outcome(d, "", "If Hosteller: warden name + room no required", FALSE)
         ELSE Outcome(UpdateStudents(d, StudentByEmail(d, email), ProfileColumns(f)),
                      "Profile updated", "", FALSE)
    [] f.method = "POST" /\ f.form_type = "academics" ->
         IF parse_ymd(f.semester_start) = NoDate
           THEN Outcome(d, "", "Semester Start must be YYYY-MM-DD", FALSE)
         ELSE Outcome(UpdateStudents(d, StudentByEmail(d, email), AcademicColumns(f)),
                      "Academics updated", "", TRUE)
    [] f.method = "POST" /\ f.form_type = "skill_add" ->
         IF f.text = "" THEN Outcome(d, "", "Skill name required", FALSE)
         ELSE Outcome(InsertChild(d, "skills",
                        [student_email |-> email, skill_name |-> f.text,
                         levels_completed |-> SkillLevels(f)]),
                      "Skill added", "", TRUE)
    [] f.method = "POST" /\ f.form_type = "skill_delete" ->
         Outcome(DeleteChild(d, "skills", safe_int(f.id, 0), email), "Skill deleted", "", TRUE)
    [] f.method = "POST" /\ f.form_type = "ach_add" ->
         IF f.text = "" THEN Outcome(d, "", "Achievement title required", FALSE)
         ELSE Outcome(InsertChild(d, "achievements", [student_email |-> email, title |-> f.text]),
                      "Achievement added", "", TRUE)
    [] f.method = "POST" /\ f.form_type = "ach_delete" ->
         Outcome(DeleteChild(d, "achievements", safe_int(f.id, 0), email),
                 "Achievement deleted", "", TRUE)
    [] f.method = "POST" /\ f.form_type = "cert_add" ->
         IF f.text = "" THEN Outcome(d, "", "Certification name required", FALSE)
         ELSE Outcome(InsertChild(d, "certifications", [student_email |-> email, name |-> f.text]),
                      "Certification added", "", TRUE)
    [] f.method = "POST" /\ f.form_type = "cert_delete" ->
         Outcome(DeleteChild(d, "certifications", safe_int(f.id, 0), email),
                 "Certification deleted", "", TRUE)
    [] OTHER -> Outcome(d, "", "", FALSE)

\* staff_student_portal, the branches of form_type, for the student row `student`
staff_post(d, student, f) ==
  CASE f.method # "POST" -> Outcome(d, "", "", FALSE)
    [] f.method = "POST" /\ f.form_type = "edit" ->
         LET e1 == IF f.name = "" \/ f.semester_start.fmt = "empty"
                     THEN "Fill all required fields"
                   ELSE IF parse_ymd(f.semester_start) = NoDate
                     THEN "Semester Start must be YYYY-MM-DD" ELSE ""
             error == IF HostellerIncomplete(f)
                        THEN "If Hosteller: warden name + room no required" ELSE e1
         IN  IF error # "" THEN Outcome(d, "", error, FALSE)
             ELSE Outcome(UpdateStudents(d, StudentById(d, student.id),
                                         ProfileColumns(f) @@ AcademicColumns(f)),
                          "Student updated", "", TRUE)
    [] f.method = "POST" /\ f.form_type = "skill_add" ->
         IF f.text = "" THEN Outcome(d, "", "Skill name required", FALSE)
         ELSE Outcome(InsertChild(d, "skills",
                        [student_email |-> student.user_email, skill_name |-> f.text,
                         levels_completed |-> SkillLevels(f)]),
                      "Skill added", "", TRUE)
    [] f.method = "POST" /\ f.form_type = "skill_delete" ->
         Outcome(DeleteChild(d, "skills", safe_int(f.id, 0), student.user_email),
                 "Skill deleted", "", TRUE)
    [] OTHER -> Outcome(d, "", "", FALSE)

\* users.email is UNIQUE: the INSERT raises IntegrityError
UsersInsertFails(d, email) == \E u \in d.users : u.email = email

\* (roll taken for free of the constraint)
StudentsInsertFails_roll_free(d, email, roll) ==
  \E t \in d.students : t.user_email = email

\* students.user_email and students.roll are UNIQUE: the INSERT raises IntegrityError
StudentsInsertFails(d, email, roll) ==
  \E t \in d.students : t.user_email = email \/ t.roll = roll

\* (the users row of a registration whose students INSERT fails is committed)
register_post_keeps_user(d, f) ==
  LET login_email == Lower(Strip(f.login_email))
      users_insert_fails == UsersInsertFails(d, login_email)
      students_insert_fails == StudentsInsertFails(d, login_email, f.roll)
      user == [email |-> login_email, role |-> "student",
               password_hash |-> generate_password_hash(f.login_pass)]
      id == d.seq.students + 1
      row == [id |-> id, user_email |-> login_email, roll |-> f.roll,
              placement_score |-> Fin(0)]
             @@ ProfileColumns(f) @@ AcademicColumns(f)
  IN  IF \/ IsBlank(login_email) \/ f.login_pass = "" \/ f.roll = ""
         \/ f.name = "" \/ f.semester_start.fmt = "empty"
        THEN Outcome(d, "", "Please fill all required fields", FALSE)
      ELSE IF ~validate_email_role(login_email, "student")
        THEN Outcome(d, "", "Student email must be like name.student@gmail.com", FALSE)
      ELSE IF parse_ymd(f.semester_start) = NoDate
        THEN Outcome(d, "", "Semester Start must be YYYY-MM-DD", FALSE)
      ELSE IF HostellerIncomplete(f)
        THEN Outcome(d, "", "If Hosteller: warden name + room no required", FALSE)
      ELSE IF users_insert_fails
        THEN Outcome(d, "", "Email or Roll already exists", FALSE)
      ELSE IF students_insert_fails
        THEN Outcome([d EXCEPT !.users = @ \cup {user}], "", "Email or Roll already exists", FALSE)
      ELSE Outcome([d EXCEPT !.users = @ \cup {user},
                             !.students = @ \cup {row},
                             !.seq.students = id],
                   "Student Registered", "", TRUE)

\* register_student, the POST branch: validation, the two INSERTs, the commit.  An
\* IntegrityError leaves the handler before conn.commit(): the connection is dropped
\* with its transaction open, which rolls back the INSERT INTO users that succeeded.
register_post(d, f) ==
  LET login_email == Lower(Strip(f.login_email))
      users_insert_fails == UsersInsertFails(d, login_email)
      students_insert_fails == StudentsInsertFails(d, login_email, f.roll)
      user == [email |-> login_email, role |-> "student",
               password_hash |-> generate_password_hash(f.login_pass)]
      id == d.seq.students + 1
      row == [id |-> id, user_email |-> login_email, roll |-> f.roll,
              placement_score |-> Fin(0)]
             @@ ProfileColumns(f) @@ AcademicColumns(f)
  IN  IF \/ IsBlank(login_email) \/ f.login_pass = "" \/ f.roll = ""
         \/ f.name = "" \/ f.semester_start.fmt = "empty"
        THEN Outcome(d, "", "Please fill all required fields", FALSE)
      ELSE IF ~validate_email_role(login_email, "student")
        THEN Outcome(d, "", "Student email must be like name.student@gmail.com", FALSE)
      ELSE IF parse_ymd(f.semester_start) = NoDate
        THEN Outcome(d, "", "Semester Start must be YYYY-MM-DD", FALSE)
      ELSE IF HostellerIncomplete(f)
        THEN Outcome(d, "", "If Hosteller: warden name + room no required", FALSE)
      ELSE IF users_insert_fails
        THEN Outcome(d, "", "Email or Roll already exists", FALSE)
      ELSE IF students_insert_fails
        THEN Outcome(d, "", "Email or Roll already exists", FALSE)
      ELSE Outcome([d EXCEPT !.users = @ \cup {user},
                             !.students = @ \cup {row},
                             !.seq.students = id],
                   "Student Registered", "", TRUE)

-----------------------------------------------------------------------------
(* The request handlers.  For a request served from its first statement to its *)
(* response, <handler>_db is the tables it leaves and <handler>_page the page   *)
(* it returns.                                                                 *)

\* (the achievement delete goes without its refresh_score)
Apply_forgets(o, email) ==
  IF o.refresh /\ o.message # "Achievement deleted" THEN refresh_score(o.db, email) ELSE o.db

\* refresh_score(conn, email) after the commit of a branch that calls it
Apply(o, email) == IF o.refresh THEN refresh_score(o.db, email) ELSE o.db

LoginError(d, f) ==
  LET email == Lower(Strip(f.email))
  IN  IF f.role = "" \/ IsBlank(email) \/ f.password = "" THEN "Please fill all fields"
      ELSE IF \A u \in d.users :
                ~(u.email = email /\ u.role = f.role
                  /\ check_password_hash(u.password_hash, f.password))
        THEN "Invalid email or password"
      ELSE ""

\* the session after login: sess unless the login succeeds
login_session(d, sess, f) ==
  IF LoginError(d, f) # "" THEN sess
  ELSE [role |-> f.role, email |-> Lower(Strip(f.email))]

\* the session after logout: session.clear()
logout_session(sess) == NoSession

login_page(d, f) ==
  IF LoginError(d, f) # ""
    THEN [BlankPage EXCEPT !.view = "login.html", !.error = LoginError(d, f)]
  ELSE Redirect(IF f.role = "student" THEN "/student" ELSE "/staff")

\* the session cookies a browser can hold: none, or one that login has issued
Cookies(d) == {NoSession} \cup {login_session(d, NoSession, f) : f \in LoginForms}

register_student_db(d, f) == Apply(register_post(d, f), Lower(Strip(f.login_email)))

register_student_page(d, f) ==
  [BlankPage EXCEPT !.view = "register_student.html",
                    !.message = register_post(d, f).message,
                    !.error = register_post(d, f).error]

StaffRegisterError(d, f) ==
  LET email == Lower(Strip(f.email))
  IN  IF IsBlank(email) \/ f.password = "" THEN "Fill all fields"
      ELSE IF ~validate_email_role(email, "staff")
        THEN "Staff email must be like name.staff@gmail.com"
      ELSE IF \E u \in d.users : u.email = email THEN "Staff email already exists"
      ELSE ""

register_staff_db(d, f) ==
  IF StaffRegisterError(d, f) # "" THEN d
  ELSE [d EXCEPT !.users = @ \cup
          {[email |-> Lower(Strip(f.email)), role |-> "staff",
            password_hash |-> generate_password_hash(f.password)]}]

register_staff_page(d, f) ==
  [BlankPage EXCEPT
     !.view = "register_staff.html", !.error = StaffRegisterError(d, f),
     !.message = IF StaffRegisterError(d, f) = "" THEN "Staff Registered" ELSE ""]

\* student_portal: the role gate, the lookup of the student, the POST branch
student_portal_db(d, sess, f) ==
  IF ~require_role(sess, "student") THEN d
  ELSE IF StudentByEmail(d, sess.email) = {} THEN d
  ELSE Apply(student_post(d, sess.email, f), sess.email)

student_portal_page(d, sess, f, today) ==
  IF ~require_role(sess, "student") THEN Redirect("/")
  ELSE IF StudentByEmail(d, sess.email) = {} THEN Redirect("/register/student")
  ELSE LET o == student_post(d, sess.email, f)
           student == CHOOSE t \in StudentByEmail(Apply(o, sess.email), sess.email) : TRUE
       IN  RenderPortal("student_portal.html", student, today, o.message, o.error)

staff_dashboard_page(d, sess) ==
  IF ~require_role(sess, "staff") THEN Redirect("/")
  ELSE [BlankPage EXCEPT !.view = "staff_dashboard.html",
                         !.listed = {t.id : t \in d.students}]

\* staff_student_portal: the role gate, the lookup by id, the POST branch
staff_student_portal_db(d, sess, sid, f) ==
  IF ~require_role(sess, "staff") THEN d
  ELSE IF StudentById(d, sid) = {} THEN d
  ELSE LET student == CHOOSE t \in StudentById(d, sid) : TRUE
       IN  Apply(staff_post(d, student, f), student.user_email)

staff_student_portal_page(d, sess, sid, f, today) ==
  IF ~require_role(sess, "staff") THEN Redirect("/")
  ELSE IF StudentById(d, sid) = {} THEN [BlankPage EXCEPT !.view = "404"]
  ELSE LET student == CHOOSE t \in StudentById(d, sid) : TRUE
           o == staff_post(d, student, f)
           reloaded == CHOOSE t \in StudentById(Apply(o, student.user_email), sid) : TRUE
       IN  RenderPortal("staff_student_portal.html", reloaded, today, o.message, o.error)

\* the student ids a URL /staff/student/<sid> is tried with
SidInputs(d) == 0..d.seq.students

\* the step of Spec that serves a request leaving the tables d
Serve(d) ==
  /\ ChildInserts(d) <= MaxInserts
  /\ db' = d
  /\ UNCHANGED <<conns, fnCall, fnResult>>

register_student == \E f \in RegisterForms : Serve(register_student_db(db, f))

register_staff == \E f \in StaffRegisterForms : Serve(register_staff_db(db, f))

\* (a request that the role gate turns away is one step whatever its form)
student_portal ==
  \E sess \in Cookies(db) :
    IF ~require_role(sess, "student") THEN Serve(student_portal_db(db, sess, GetForm))
    ELSE \E f \in StudentForms : Serve(student_portal_db(db, sess, f))

staff_student_portal ==
  \E sess \in Cookies(db) :
    IF ~require_role(sess, "staff") THEN Serve(staff_student_portal_db(db, sess, 0, GetForm))
    ELSE \E sid \in SidInputs(db), f \in StaffForms :
           Serve(staff_student_portal_db(db, sess, sid, f))

\* login, logout and staff_dashboard read the tables and write none
login == \E f \in LoginForms : login_page(db, f).view # "" /\ Serve(db)

logout == Serve(db)

staff_dashboard ==
  \E sess \in Cookies(db) : staff_dashboard_page(db, sess).view # "" /\ Serve(db)

-----------------------------------------------------------------------------
(* The application served one request at a time *)

NoResult == [done |-> FALSE, value |-> NULL, days |-> 0]

Call(fn, sems, arrear_count, skills, level, achievements, certifications, start_date, end_date) ==
  [fn |-> fn, sems |-> sems, arrear_count |-> arrear_count, skills |-> skills,
   level |-> level, achievements |-> achievements, certifications |-> certifications,
   start_date |-> start_date, end_date |-> end_date]

NoCall == Call("none", [i \in 1..NumSems |-> NULL], 0, 0, 0, 0, 0, 0, 0)

Idle == <<>>

Init ==
  /\ db = EmptyDb
  /\ conns = Idle
  /\ fnCall = NoCall
  /\ fnResult = NoResult

Next ==
  \/ register_student
  \/ register_staff
  \/ login
  \/ logout
  \/ student_portal
  \/ staff_dashboard
  \/ staff_student_portal

Spec == Init /\ [][Next]_vars

-----------------------------------------------------------------------------
(* The helpers applied to arguments of their own: a call is drawn, then made *)

NoSemRow == [i \in 1..NumSems |-> NULL]

\* sem1 .. sem8 of the rows calc_cgpa is applied to
CgpaSemValues == {NULL, Fin(8000), Fin(9250), Fin(-250)}
\* and the values with a third decimal that a row holds alone
CgpaLoneValues == {Fin(8125), Fin(-125)}
CgpaCalls ==
  {Call("calc_cgpa", sems, 0, 0, 0, 0, 0, 0, 0) : sems \in [1..NumSems -> CgpaSemValues]}
  \cup {Call("calc_cgpa", [NoSemRow EXCEPT ![i] = v], 0, 0, 0, 0, 0, 0, 0) :
          i \in 1..NumSems, v \in CgpaLoneValues}

\* the rows and tables calc_placement_score is applied to
ScoreSems ==
  { NoSemRow,
    [NoSemRow EXCEPT ![1] = Fin(8000), ![2] = Fin(9000)],
    [NoSemRow EXCEPT ![4] = Fin(0)],
    [NoSemRow EXCEPT ![1] = Fin(9750), ![5] = Fin(10000), ![8] = Fin(10000)],
    [i \in 1..NumSems |-> Fin(10000)],
    [NoSemRow EXCEPT ![2] = Fin(25000)],
    [NoSemRow EXCEPT ![3] = Fin(-5000)],
    [NoSemRow EXCEPT ![1] = PINF],
    [NoSemRow EXCEPT ![1] = NINF, ![2] = Fin(8000)],
    [NoSemRow EXCEPT ![1] = PINF, ![7] = NINF] }
ScoreArrears == {0, 1, 3, 4, 5, 7}
ScoreLevels == {5, 10}
ScoreCalls ==
  {Call("calc_placement_score", sems, ar, sk, lv, ac, ce, 0, 0) :
     sems \in ScoreSems, ar \in ScoreArrears, sk \in 0..MaxFnSkills, lv \in ScoreLevels,
     ac \in 0..MaxFnAch, ce \in 0..MaxFnCert}

Subject == Email("a", ".student@gmail.com")
Other == Email("b", ".student@gmail.com")

\* the tables of a call: the subject's rows and one row of another student in each
CallDb(c) ==
  [EmptyDb EXCEPT
     !.skills = {[id |-> i, student_email |-> Subject, skill_name |-> "t",
                  levels_completed |-> c.level] : i \in 1..c.skills}
                \cup {[id |-> c.skills + 1, student_email |-> Other, skill_name |-> "t",
                       levels_completed |-> 10]},
     !.achievements = {[id |-> i, student_email |-> Subject, title |-> "t"] :
                         i \in 1..c.achievements}
                      \cup {[id |-> c.achievements + 1, student_email |-> Other, title |-> "t"]},
     !.certifications = {[id |-> i, student_email |-> Subject, name |-> "t"] :
                           i \in 1..c.certifications}
                        \cup {[id |-> c.certifications + 1, student_email |-> Other,
                               name |-> "t"]}]

CallRow(c) == [sems |-> c.sems, arrear_count |-> c.arrear_count]

\* the days college_working_days is applied to
FnDays == {Ordinal(2026, 1, 1) + i : i \in 0..DaySpan}
DaysCalls == {Call("college_working_days", NoSemRow, 0, 0, 0, 0, 0, s, e) :
                s \in FnDays, e \in FnDays}

\* the rows and the days calc_attendance is applied to
AttendanceStarts ==
  {DateText("ymd", 2026, 1, d) : d \in 1..(DaySpan + 1)} \cup {BadDate, EmptyDate}
AttendancePresent == {-2, 0, 1, 3, 7, 13, 20}
AttendanceCalls ==
  {[fn |-> "calc_attendance",
    student_row |-> [semester_start |-> s, present_days |-> p],
    today |-> t] : s \in AttendanceStarts, p \in AttendancePresent, t \in FnDays}

InitFn(calls) ==
  /\ db = EmptyDb
  /\ conns = Idle
  /\ fnCall \in calls
  /\ fnResult = NoResult

Return(value, days) ==
  /\ ~fnResult.done
  /\ fnResult' = [done |-> TRUE, value |-> value, days |-> days]
  /\ UNCHANGED <<db, conns, fnCall>>

EvalCgpa == fnCall.fn = "calc_cgpa" /\ Return(calc_cgpa(CallRow(fnCall)), 0)

EvalScore ==
  /\ fnCall.fn = "calc_placement_score"
  /\ Return(calc_placement_score(CallDb(fnCall), Subject, CallRow(fnCall)), 0)

EvalDays ==
  /\ fnCall.fn = "college_working_days"
  /\ Return(NULL, college_working_days(fnCall.start_date, fnCall.end_date))

EvalAttendance ==
  /\ fnCall.fn = "calc_attendance"
  /\ Return(calc_attendance(fnCall.student_row, fnCall.today), 0)

SpecCgpa == InitFn(CgpaCalls) /\ [][EvalCgpa]_vars
SpecScore == InitFn(ScoreCalls) /\ [][EvalScore]_vars
SpecDays == InitFn(DaysCalls) /\ [][EvalDays]_vars
SpecAttendance == InitFn(AttendanceCalls) /\ [][EvalAttendance]_vars

-----------------------------------------------------------------------------
(* Requests served concurrently, each on its own connection.  A statement is  *)
(* one step; a SELECT outside a transaction reads what is committed at that    *)
(* moment; every INSERT, UPDATE and DELETE of the handlers is followed by      *)
(* conn.commit().  refresh_score is four SELECTs and one UPDATE.  A connection *)
(* that a handler leaves with its transaction open (register_student after an  *)
(* IntegrityError) keeps SQLite's write lock until the connection object is    *)
(* collected; meanwhile a write on another connection raises OperationalError  *)
(* ("database is locked") when its busy timeout runs out.                      *)

Conns == {1, 2}

NoRow == [sems |-> NoSemRow, arrear_count |-> 0]

\* response: what the request has returned ("" while it is served, then "ok" or
\* "error"); refresh_failed: refresh_score raised after the handler's commit
IdleConn ==
  [pc |-> "idle", email |-> NoEmail, student |-> NoRow,
   skill_total |-> 0, ach_count |-> 0, cert_count |-> 0,
   response |-> "", refresh_failed |-> FALSE]

\* another connection holds the write lock
Locked(c) == \E o \in Conns \ {c} : conns[o].pc = "dangling"

\* the tables SpecTxn starts from: student a and staff x have registered
TxnDb ==
  register_staff_db(
    register_student_db(EmptyDb,
      RegisterForm(Email("a", ".student@gmail.com"), "pw", "r1", FirstProfile, FirstAcademic)),
    [method |-> "POST", email |-> Email("x", ".staff@gmail.com"), password |-> "pw"])

InitTxn ==
  /\ db = TxnDb
  /\ conns = [c \in Conns |-> IdleConn]
  /\ fnCall = NoCall
  /\ fnResult = NoResult

\* the requests of SpecTxn: those that leave the residence columns as they are
TxnStudentForms == {f \in StudentForms : f.form_type # "profile"}
TxnStaffForms ==
  {f \in StaffForms : f.form_type = "edit" =>
     f.scholar_type = FirstProfile.scholar_type /\ f.name # ""}

\* the handler's statements up to its commit; then refresh_score(conn, email) if
\* the branch calls it, else the response
TxnCommit(c, o, email) ==
  /\ ChildInserts(o.db) <= MaxTxnInserts
  /\ o.refresh \/ o.db # db => ~Locked(c)
  /\ db' = o.db
  /\ conns' = [conns EXCEPT ![c] =
                 IF o.refresh THEN [IdleConn EXCEPT !.pc = "select_student", !.email = email]
                 ELSE IdleConn]
  /\ UNCHANGED <<fnCall, fnResult>>

TxnStudentPortal(c) ==
  /\ conns[c].pc = "idle"
  /\ \E sess \in Cookies(db), f \in TxnStudentForms :
       /\ require_role(sess, "student")
       /\ StudentByEmail(db, sess.email) # {}
       /\ TxnCommit(c, student_post(db, sess.email, f), sess.email)

TxnStaffStudentPortal(c) ==
  /\ conns[c].pc = "idle"
  /\ \E sess \in Cookies(db), sid \in SidInputs(db), f \in TxnStaffForms :
       /\ require_role(sess, "staff")
       /\ StudentById(db, sid) # {}
       /\ LET student == CHOOSE t \in StudentById(db, sid) : TRUE
          IN  TxnCommit(c, staff_post(db, student, f), student.user_email)

\* refresh_score: SELECT * FROM students WHERE user_email=?
TxnSelectStudent(c) ==
  /\ conns[c].pc = "select_student"
  /\ LET found == StudentByEmail(db, conns[c].email)
     IN  conns' = [conns EXCEPT ![c] =
           IF found = {} THEN IdleConn
           ELSE LET t == CHOOSE x \in found : TRUE
                IN  [@ EXCEPT !.pc = "sum_skills",
                              !.student = [sems |-> t.sems, arrear_count |-> t.arrear_count]]]
  /\ UNCHANGED <<db, fnCall, fnResult>>

\* calc_placement_score: SELECT COALESCE(SUM(levels_completed),0) FROM skills ...
TxnSumSkills(c) ==
  /\ conns[c].pc = "sum_skills"
  /\ conns' = [conns EXCEPT ![c].pc = "count_achievements",
                            ![c].skill_total = SumLevels(RowsOf(db.skills, conns[c].email))]
  /\ UNCHANGED <<db, fnCall, fnResult>>

\* calc_placement_score: SELECT COUNT(*) FROM achievements ...
TxnCountAchievements(c) ==
  /\ conns[c].pc = "count_achievements"
  /\ conns' = [conns EXCEPT ![c].pc = "count_certifications",
                            ![c].ach_count = Cardinality(RowsOf(db.achievements, conns[c].email))]
  /\ UNCHANGED <<db, fnCall, fnResult>>

\* calc_placement_score: SELECT COUNT(*) FROM certifications ...
TxnCountCertifications(c) ==
  /\ conns[c].pc = "count_certifications"
  /\ conns' = [conns EXCEPT ![c].pc = "update_score",
                            ![c].cert_count =
                               Cardinality(RowsOf(db.certifications, conns[c].email))]
  /\ UNCHANGED <<db, fnCall, fnResult>>

\* refresh_score: UPDATE students SET placement_score=? WHERE user_email=?; commit;
\* then the handler's reload and its page
TxnUpdateScore(c) ==
  /\ conns[c].pc = "update_score"
  /\ ~Locked(c)
  /\ db' = UpdateStudents(db, StudentByEmail(db, conns[c].email),
             [placement_score |-> ScoreOf(conns[c].student, conns[c].skill_total,
                                          conns[c].ach_count, conns[c].cert_count)])
  /\ conns' = [conns EXCEPT ![c] =
                 [IdleConn EXCEPT !.pc = "responded", !.email = conns[c].email,
                                  !.response = "ok"]]
  /\ UNCHANGED <<fnCall, fnResult>>

\* refresh_score: the UPDATE raises OperationalError; student_portal and
\* staff_student_portal catch nothing, so the request ends as the error response
TxnRefreshFails(c) ==
  /\ conns[c].pc = "update_score"
  /\ Locked(c)
  /\ conns' = [conns EXCEPT ![c] =
                 [IdleConn EXCEPT !.pc = "responded", !.email = conns[c].email,
                                  !.response = "error", !.refresh_failed = TRUE]]
  /\ UNCHANGED <<db, fnCall, fnResult>>

\* the response is sent and the connection closed
TxnRespond(c) ==
  /\ conns[c].pc = "responded"
  /\ conns' = [conns EXCEPT ![c] = IdleConn]
  /\ UNCHANGED <<db, fnCall, fnResult>>

\* the registrations of SpecTxn: a new email with the roll of student a
TxnRegisterForms ==
  {RegisterForm(Email("b", ".student@gmail.com"), "pw", "r1", FirstProfile, FirstAcademic)}

\* register_student up to its IntegrityError: INSERT INTO users succeeds, INSERT
\* INTO students fails, the handler returns without commit, rollback or close
TxnRegisterStudent(c) ==
  /\ conns[c].pc = "idle"
  /\ ~Locked(c)
  /\ \E f \in TxnRegisterForms :
       /\ register_post(db, f).error = "Email or Roll already exists"
       /\ ~UsersInsertFails(db, Lower(Strip(f.login_email)))
       /\ conns' = [conns EXCEPT ![c] =
                      [IdleConn EXCEPT !.pc = "dangling", !.email = Lower(Strip(f.login_email)),
                                       !.response = "error"]]
  /\ UNCHANGED <<db, fnCall, fnResult>>

\* the connection object is collected: its transaction is rolled back
TxnCollect(c) ==
  /\ conns[c].pc = "dangling"
  /\ conns' = [conns EXCEPT ![c] = IdleConn]
  /\ UNCHANGED <<db, fnCall, fnResult>>

NextTxn ==
  \E c \in Conns :
    \/ TxnStudentPortal(c)
    \/ TxnStaffStudentPortal(c)
    \/ TxnSelectStudent(c)
    \/ TxnSumSkills(c)
    \/ TxnCountAchievements(c)
    \/ TxnCountCertifications(c)
    \/ TxnUpdateScore(c)
    \/ TxnRefreshFails(c)
    \/ TxnRespond(c)
    \/ TxnRegisterStudent(c)
    \/ TxnCollect(c)

SpecTxn == InitTxn /\ [][NextTxn]_vars

-----------------------------------------------------------------------------
(* The application and the score helper side by side: either requests are   *)
(* served from the empty tables, or calc_placement_score is applied to a     *)
(* call of ScoreCalls.                                                       *)

InitRange == Init \/ InitFn(ScoreCalls)

NextRange ==
  \/ fnCall = NoCall /\ Next
  \/ EvalScore

SpecRange == InitRange /\ [][NextRange]_vars

-----------------------------------------------------------------------------
(* Properties *)

InRange(x) == IsFin(x) /\ 0 <= x.v /\ x.v <= 100000

\* C1: the placement score is always in [0, 100]: whatever calc_placement_score
\* returns for a call, and every student's stored placement_score in every
\* reachable state of the application.
ScoreInRange ==
  /\ fnResult.done /\ fnCall.fn = "calc_placement_score" => InRange(fnResult.value)
  /\ \A t \in db.students :
       InRange(t.placement_score) /\ InRange(calc_placement_score(db, t.user_email, t))

\* a student whose parts sum to less than 0 (CGPA -5, seven arrears), stored as 0
ScoreInRangeWitness ==
  \E t \in db.students :
    /\ t.arrear_count = 7
    /\ t.sems[3] = Fin(-5000)
    /\ t.placement_score = Fin(0)

\* C2: after any sequence of completed requests each student's stored
\* placement_score is the placement formula of the student's current row and
\* child rows.
ScoreCacheCoherent ==
  \A t \in db.students : t.placement_score = calc_placement_score(db, t.user_email, t)

\* a registered student (CGPA 8.5, one arrear) with a skill of level 10: 35.50
ScoreCacheCoherentWitness ==
  \E t \in db.students :
    /\ RowsOf(db.skills, t.user_email) # {}
    /\ t.placement_score = Fin(35500)

\* C3: the score is written in the transaction of the mutation: no committed
\* state has a request past its commit and before its score write while the
\* student's stored placement_score differs from the formula over the committed
\* rows.
NoCommittedStaleScore ==
  \A c \in DOMAIN conns :
    conns[c].pc # "idle" =>
      \A t \in StudentByEmail(db, conns[c].email) :
        t.placement_score = calc_placement_score(db, t.user_email, t)

\* C4: refresh_score run twice in a row leaves what one run leaves, and one run
\* changes nothing but the student's placement_score.
RefreshIdempotent ==
  \A t \in db.students :
    LET once == refresh_score(db, t.user_email)
        twice == refresh_score(once, t.user_email)
    IN  /\ twice = once
        /\ \E score \in {u.placement_score : u \in StudentByEmail(once, t.user_email)} :
             once = UpdateStudents(db, {t}, [placement_score |-> score])

\* a committed state whose stored score is stale, so that refresh_score writes
RefreshIdempotentWitness ==
  \E t \in db.students :
    LET once == refresh_score(db, t.user_email)
    IN  once # db /\ refresh_score(once, t.user_email) = once

ReadForms == {f \in StudentForms \cup StaffForms : f.method = "GET" \/ f.form_type = "unknown"}

\* C5: a read-only render (GET, or a POST of no known form_type) of either
\* portal leaves every table as it is and presents the stored placement_score,
\* with CGPA and attendance computed from the stored row.
ReadNeverRecomputes ==
  \A sess \in Cookies(db), f \in ReadForms, today \in Todays :
    /\ student_portal_db(db, sess, f) = db
    /\ \A t \in StudentByEmail(db, sess.email) :
         require_role(sess, "student") =>
           LET shown == student_portal_page(db, sess, f, today)
           IN  /\ shown.score = t.placement_score
               /\ shown.cgpa = calc_cgpa(t)
               /\ shown.attendance = calc_attendance(t, today)
    /\ \A t \in db.students :
         /\ staff_student_portal_db(db, sess, t.id, f) = db
         /\ require_role(sess, "staff") =>
              LET shown == staff_student_portal_page(db, sess, t.id, f, today)
              IN  /\ shown.score = t.placement_score
                  /\ shown.cgpa = calc_cgpa(t)
                  /\ shown.attendance = calc_attendance(t, today)

\* a GET of the student portal while the stored score differs from the formula
ReadNeverRecomputesWitness ==
  \E sess \in Cookies(db), today \in Todays :
    /\ require_role(sess, "student")
    /\ \E t \in StudentByEmail(db, sess.email) :
         /\ student_portal_page(db, sess, GetForm, today).score = t.placement_score
         /\ t.placement_score # calc_placement_score(db, t.user_email, t)

DeleteKinds ==
  { <<"skill_delete", "skills">>, <<"ach_delete", "achievements">>,
    <<"cert_delete", "certifications">> }

\* the delete of (id, owner) in `table` took the tables from before to after
OwnerScoped(before, after, table, id, owner) ==
  LET matching == {r \in before[table] : r.id = id /\ r.student_email = owner}
  IN  /\ after[table] \subseteq before[table]
      /\ before[table] \ after[table] \subseteq matching
      /\ \A other \in {"skills", "achievements", "certifications"} \ {table} :
           after[other] = before[other]
      /\ matching = {} => after = before

\* C6: a delete request removes a row only if its id is the submitted id and its
\* student_email is the acting student's (for staff, the viewed student's); when
\* no row matches, no row of any student goes and every stored score stays.
OwnerScopedDelete ==
  /\ \A sess \in Cookies(db), k \in DeleteKinds :
       \A f \in DeleteForms(k[1]) :
         OwnerScoped(db, student_portal_db(db, sess, f), k[2], safe_int(f.id, 0), sess.email)
  /\ \A sess \in Cookies(db), t \in db.students :
       \A f \in DeleteForms("skill_delete") :
         OwnerScoped(db, staff_student_portal_db(db, sess, t.id, f), "skills",
                     safe_int(f.id, 0), t.user_email)

\* a student asks to delete the row of another student, by its id
OwnerScopedDeleteWitness ==
  \E sess \in Cookies(db), k \in DeleteKinds :
    /\ require_role(sess, "student")
    /\ StudentByEmail(db, sess.email) # {}
    /\ \E r \in db[k[2]], f \in DeleteForms(k[1]) :
         /\ r.student_email # sess.email
         /\ safe_int(f.id, 0) = r.id
         /\ student_portal_db(db, sess, f) = db

\* clamp(x, 0, 100) on thousandths
Clamp100(x) == IF x < 0 THEN 0 ELSE IF x > 100000 THEN 100000 ELSE x

\* the formula of the specification, in thousandths, for a CGPA that is null or finite
PlacementFormula(cgpa, skillTotal, achievementCount, certificationCount, arrear_count) ==
  LET cgpaPart == (IF cgpa = NULL THEN 0 ELSE cgpa.v) * 5
      skillPart == Min2(30000, skillTotal * 300)
      achPart == Min2(10000, 2500 * achievementCount)
      certPart == Min2(10000, 2000 * certificationCount)
      penalty == Min2(40000, 10000 * Max2(0, arrear_count))
  IN  Clamp100(cgpaPart + skillPart + achPart + certPart - penalty)

ScoreReturned == fnResult.done /\ fnCall.fn = "calc_placement_score"

ExampleCall ==
  Call("calc_placement_score", [NoSemRow EXCEPT ![1] = Fin(8000), ![2] = Fin(9000)],
       1, 2, 5, 1, 0, 0, 0)

\* C7: the computed score is clamp(cgpaPart + skillPart + achPart + certPart -
\* penalty, 0, 100) rounded to 2 decimals; sem1 = 8.0, sem2 = 9.0, two skills of
\* level 5, one achievement, no certification and one arrear give 38.00.
ScoreFormula ==
  ScoreReturned =>
    LET cgpa == calc_cgpa(CallRow(fnCall))
        raw == PlacementFormula(cgpa, fnCall.skills * fnCall.level, fnCall.achievements,
                                fnCall.certifications, fnCall.arrear_count)
    IN  /\ cgpa = NULL \/ IsFin(cgpa) =>
             /\ IsFin(fnResult.value)
             /\ fnResult.value.v % 10 = 0
             /\ 2 * (fnResult.value.v - raw) <= 10
             /\ 2 * (raw - fnResult.value.v) <= 10
        /\ fnCall = ExampleCall => fnResult.value = Fin(38000)

\* the example has been computed
ScoreFormulaWitness ==
  ScoreReturned /\ fnCall = ExampleCall /\ fnResult.value = Fin(38000)

\* what the parts other than the penalty come to, clamped
WithoutArrears(c) ==
  calc_placement_score(CallDb(c), Subject, [CallRow(c) EXCEPT !.arrear_count = 0])

\* C8: with the CGPA, skill, achievement and certification parts all 0, any
\* arrear_count >= 1 gives exactly 0.00; and no arrear_count takes more than 40
\* off the score.
ArrearsBoundary ==
  ScoreReturned =>
    /\ /\ \A i \in 1..NumSems : fnCall.sems[i] \in {NULL, Fin(0)}
       /\ fnCall.skills = 0 /\ fnCall.achievements = 0 /\ fnCall.certifications = 0
       /\ fnCall.arrear_count >= 1
       => fnResult.value = Fin(0)
    /\ IsFin(fnResult.value) /\ IsFin(WithoutArrears(fnCall)) =>
         fnResult.value.v >= WithoutArrears(fnCall).v - 40000

\* five arrears and nothing else: 0.00
ArrearsBoundaryWitness ==
  /\ ScoreReturned
  /\ fnCall.sems = NoSemRow /\ fnCall.skills = 0
  /\ fnCall.achievements = 0 /\ fnCall.certifications = 0
  /\ fnCall.arrear_count = 5
  /\ fnResult.value = Fin(0)

\* 2026-01-04 is a Sunday
IsSunday(d) == (d - Ordinal(2026, 1, 4)) % 7 = 0

DaysReturned == fnResult.done /\ fnCall.fn = "college_working_days"

\* C9: college_working_days(start, end) is 0 when end < start, and otherwise the
\* number of days d, start <= d <= end, that are not Sundays: 1 or 0 for (d, d).
WorkingDaysCount ==
  DaysReturned =>
    LET start == fnCall.start_date
        end == fnCall.end_date
    IN  /\ end < start => fnResult.days = 0
        /\ end >= start =>
             fnResult.days = Cardinality({d \in start..end : ~IsSunday(d)})
        /\ end = start => fnResult.days = (IF IsSunday(start) THEN 0 ELSE 1)

\* a week that ends on a Sunday: six working days
WorkingDaysCountWitness ==
  /\ DaysReturned
  /\ fnCall.end_date = fnCall.start_date + 6
  /\ IsSunday(fnCall.end_date)
  /\ fnResult.days = 6

CgpaReturned == fnResult.done /\ fnCall.fn = "calc_cgpa"

RECURSIVE SumOver(_, _)
SumOver(sems, slots) ==
  IF slots = {} THEN 0
  ELSE LET i == CHOOSE x \in slots : TRUE
       IN  sems[i].v + SumOver(sems, slots \ {i})

\* C10: calc_cgpa is null when sem1 .. sem8 are all null, and otherwise the mean
\* of the non-null values, whatever slots hold them, rounded to 2 decimals: v
\* rounded when v is the only one.
CgpaMean ==
  CgpaReturned =>
    LET slots == {i \in 1..NumSems : fnCall.sems[i] # NULL}
        n == Cardinality(slots)
        total == SumOver(fnCall.sems, slots)
        r == fnResult.value
    IN  /\ slots = {} => r = NULL
        /\ slots # {} =>
             /\ IsFin(r)
             /\ r.v % 10 = 0
             /\ 2 * (n * r.v - total) <= 10 * n
             /\ 2 * (total - n * r.v) <= 10 * n
        /\ n = 1 => \A i \in slots :
             2 * (r.v - fnCall.sems[i].v) <= 10 /\ 2 * (fnCall.sems[i].v - r.v) <= 10

\* 8.0, 9.25 and -0.25 in slots other than the first: 5.67
CgpaMeanWitness ==
  /\ CgpaReturned
  /\ fnCall.sems[1] = NULL
  /\ {fnCall.sems[i] : i \in 1..NumSems} = {NULL, Fin(8000), Fin(9250), Fin(-250)}
  /\ Cardinality({i \in 1..NumSems : fnCall.sems[i] # NULL}) = 3
  /\ fnResult.value = Fin(5670)

\* the roles validate_email_role is asked about
RoleInputs == {"student", "staff", "admin", ""}

\* the text of e, trimmed and lower-cased, ends with `suffix`
EndsWithNormalised(e, suffix) == e.suffix = suffix

\* C11: validate_email_role(email, role) is true exactly when the trimmed,
\* lower-cased email ends with ".student@gmail.com" and role is "student", or
\* with ".staff@gmail.com" and role is "staff" (false for any other role); and
\* every user row registration has created passes the check for its role.
EmailRoleValidated ==
  /\ \A e \in EmailInputs, role \in RoleInputs :
       validate_email_role(e, role) <=>
         \/ role = "student" /\ EndsWithNormalised(e, ".student@gmail.com")
         \/ role = "staff" /\ EndsWithNormalised(e, ".staff@gmail.com")
  /\ \A u \in db.users :
       /\ u.role \in {"student", "staff"}
       /\ validate_email_role(u.email, u.role)
       /\ ~validate_email_role(u.email, IF u.role = "student" THEN "staff" ELSE "student")

\* a student and a staff member have registered, and the forms that offer a
\* staff address to the student registration (and the reverse) exist
EmailRoleValidatedWitness ==
  /\ \E u \in db.users : u.role = "student" /\ u.email = Email("a", ".student@gmail.com")
  /\ \E u \in db.users : u.role = "staff" /\ u.email = Email("x", ".staff@gmail.com")
  /\ \E f \in RegisterForms : f.login_email = Email("x", ".staff@gmail.com")
  /\ \E f \in StaffRegisterForms : f.email = Upper(Email("a", ".student@gmail.com"))
  /\ validate_email_role(Upper(Email("a", ".student@gmail.com")), "student")

\* C12: in every reachable state a Hosteller row has a warden_name and a room_no,
\* and a Day Scholar row has neither, whatever the form submitted.
ResidenceInvariant ==
  \A t \in db.students :
    /\ t.scholar_type = "Hosteller" => t.warden_name # "" /\ t.room_no # ""
    /\ t.scholar_type = "Day Scholar" => t.warden_name = "" /\ t.room_no = ""

\* a Hosteller row with its warden, beside a Day Scholar row whose form (the only
\* Day Scholar form that is accepted) carried a warden and a room
ResidenceInvariantWitness ==
  /\ \E t \in db.students : t.scholar_type = "Hosteller" /\ t.warden_name = "w" /\ t.room_no = "r"
  /\ \E t \in db.students : t.scholar_type = "Day Scholar" /\ t.warden_name = ""
  /\ \A p \in ProfileParts :
       ProfileOk(p) /\ p.scholar_type = "Day Scholar" => p.warden_name = "w" /\ p.room_no = "r"

\* the registration form f passes every validation rule of register_student
RegisterValid(f) ==
  /\ ~IsBlank(Lower(Strip(f.login_email))) /\ f.login_pass # "" /\ f.roll # ""
  /\ f.name # "" /\ f.semester_start.fmt # "empty"
  /\ validate_email_role(f.login_email, "student")
  /\ DateOk(f.semester_start)
  /\ ~(f.scholar_type = "Hosteller" /\ (f.warden_name = "" \/ f.room_no = ""))

EmailExists(d, f) == \E u \in d.users : u.email = Lower(Strip(f.login_email))
RollExists(d, f) == \E t \in d.students : t.roll = f.roll

\* C13: a student registration whose login email is already in users, or whose
\* roll is already in students, leaves every table as before the request, and,
\* when the form is otherwise valid, reports "Email or Roll already exists".
DuplicateRegistrationRejected ==
  \A f \in RegisterForms :
    EmailExists(db, f) \/ RollExists(db, f) =>
      /\ register_student_db(db, f) = db
      /\ register_student_page(db, f).message = ""
      /\ RegisterValid(f) =>
           register_student_page(db, f).error = "Email or Roll already exists"

\* a valid registration with a new email and a roll that is taken: the INSERT
\* into users succeeds and the INSERT into students fails
DuplicateRegistrationRejectedWitness ==
  \E f \in RegisterForms :
    /\ RegisterValid(f) /\ ~EmailExists(db, f) /\ RollExists(db, f)
    /\ register_student_page(db, f).error = "Email or Roll already exists"
    /\ register_student_db(db, f) = db

\* C14: in every reachable state user emails are pairwise distinct, student rolls
\* and student user_emails are pairwise distinct, every student row belongs to
\* exactly one student-role user and every student-role user has exactly one
\* student row.
IdentityInvariant ==
  /\ \A u, v \in db.users : u.email = v.email => u = v
  /\ \A s, t \in db.students :
       s.roll = t.roll \/ s.user_email = t.user_email \/ s.id = t.id => s = t
  /\ \A t \in db.students :
       Cardinality({u \in db.users : u.email = t.user_email /\ u.role = "student"}) = 1
  /\ \A u \in db.users :
       u.role = "student" => Cardinality({t \in db.students : t.user_email = u.email}) = 1

\* two students and a staff member have registered, and registrations that repeat
\* an email or a roll are among the forms
IdentityInvariantWitness ==
  /\ Cardinality(db.students) = 2
  /\ Cardinality({u \in db.users : u.role = "staff"}) = 1
  /\ \E f \in RegisterForms : RegisterValid(f) /\ EmailExists(db, f)
  /\ \E f \in RegisterForms : RegisterValid(f) /\ RollExists(db, f)

\* a Hosteller form without a warden name or without a room number
HostellerRuleFails(f) == f.scholar_type = "Hosteller" /\ (f.warden_name = "" \/ f.room_no = "")

\* the portal form f fails a validation rule of the student portal
StudentFormRejected(f) ==
  /\ f.method = "POST"
  /\ \/ f.form_type = "profile" /\ (f.name = "" \/ HostellerRuleFails(f))
     \/ f.form_type = "academics" /\ ~DateOk(f.semester_start)
     \/ f.form_type \in {"skill_add", "ach_add", "cert_add"} /\ f.text = ""

\* the portal form f fails a validation rule of the staff student portal
StaffFormRejected(f) ==
  /\ f.method = "POST"
  /\ \/ /\ f.form_type = "edit"
        /\ f.name = "" \/ ~DateOk(f.semester_start) \/ HostellerRuleFails(f)
     \/ f.form_type = "skill_add" /\ f.text = ""

\* the page shows an error and no success message
ErrorShown(shown) == shown.error # "" /\ shown.message = ""

\* C15: a registration, profile update, academics update, staff edit or add that
\* fails a validation rule returns a page with an error message and leaves every
\* table, stored placement_score included, unchanged.
RejectedWritesNothing ==
  /\ \A f \in RegisterForms :
       ~RegisterValid(f) =>
         /\ register_student_db(db, f) = db
         /\ register_student_page(db, f).view = "register_student.html"
         /\ ErrorShown(register_student_page(db, f))
  /\ \A f \in StaffRegisterForms :
       ~validate_email_role(f.email, "staff") \/ f.password = "" =>
         /\ register_staff_db(db, f) = db
         /\ ErrorShown(register_staff_page(db, f))
  /\ \A sess \in Cookies(db), today \in Todays :
       /\ require_role(sess, "student") /\ StudentByEmail(db, sess.email) # {} =>
            \A f \in StudentForms :
              StudentFormRejected(f) =>
                /\ student_portal_db(db, sess, f) = db
                /\ student_portal_page(db, sess, f, today).view = "student_portal.html"
                /\ ErrorShown(student_portal_page(db, sess, f, today))
       /\ require_role(sess, "staff") =>
            \A t \in db.students, f \in StaffForms :
              StaffFormRejected(f) =>
                /\ staff_student_portal_db(db, sess, t.id, f) = db
                /\ staff_student_portal_page(db, sess, t.id, f, today).view
                     = "staff_student_portal.html"
                /\ ErrorShown(staff_student_portal_page(db, sess, t.id, f, today))

\* a student with a skill row and a score, whose Hosteller profile without a room
\* and whose academics with an unparseable date are turned down
RejectedWritesNothingWitness ==
  \E sess \in Cookies(db), today \in Todays :
    /\ require_role(sess, "student")
    /\ \E t \in StudentByEmail(db, sess.email) :
         /\ t.placement_score = Fin(35500)
         /\ RowsOf(db.skills, t.user_email) # {}
    /\ \E f \in StudentForms :
         /\ f.form_type = "profile" /\ HostellerRuleFails(f)
         /\ student_portal_page(db, sess, f, today).error
              = "If Hosteller: warden name + room no required"
    /\ \E f \in StudentForms :
         /\ f.form_type = "academics" /\ ~DateOk(f.semester_start)
         /\ student_portal_page(db, sess, f, today).error = "Semester Start must be YYYY-MM-DD"
         /\ student_portal_db(db, sess, f) = db

\* C16: the score recompute is best-effort: when refresh_score fails after the
\* mutation has been committed, the request still reports the mutation as
\* successful (and the committed mutation stays in the tables).
RecomputeBestEffort ==
  \A c \in DOMAIN conns :
    conns[c].pc = "responded" /\ conns[c].refresh_failed => conns[c].response = "ok"


\* C17: calc_attendance returns (total, present, pct): total is
\* college_working_days(semester_start, today) when semester_start parses,
\* present is the row's present_days, and pct is a multiple of 0.01 in
\* [0, 100]: 0 when total <= 0 (a semester_start after today), otherwise
\* within 0.005 of present/total*100 clamped to [0, 100], 100 when
\* present_days exceeds total.
AttendanceReturned == fnCall.fn = "calc_attendance" /\ fnResult.done

AttendanceContract ==
  AttendanceReturned =>
    LET row == fnCall.student_row
        today == fnCall.today
        total == fnResult.value[1]
        present == fnResult.value[2]
        pct == fnResult.value[3]
        wanted == IF present < 0 THEN 0
                  ELSE IF present > total THEN 100000 * total
                  ELSE 100000 * present
    IN  /\ DateOk(row.semester_start)
             => total = college_working_days(parse_ymd(row.semester_start), today)
        /\ present = row.present_days
        /\ IsFin(pct) /\ pct.v % 10 = 0 /\ pct.v >= 0 /\ pct.v <= 100000
        /\ total <= 0 => pct.v = 0
        /\ total > 0 => /\ pct.v * total - wanted <= 5 * total
                        /\ wanted - pct.v * total <= 5 * total

\* one day attended of three is shown as 33.33
AttendanceContractWitness ==
  /\ AttendanceReturned
  /\ DateOk(fnCall.student_row.semester_start)
  /\ fnResult.value[1] = 3 /\ fnResult.value[2] = 1 /\ fnResult.value[3] = Fin(33330)


\* C18: for every stored student each component of the score is bounded on its
\* own: 0 <= cgpaPart <= 50, 0 <= skillPart <= 30, 0 <= achPart <= 10,
\* 0 <= certPart <= 10 and 0 <= penalty <= 40, whatever semester values the
\* forms submitted.
CgpaPart(student_row) ==
  LET c == calc_cgpa(student_row)
  IN  FScale(IF Truthy(c) THEN c ELSE Fin(0), 5, 1)

ComponentsBounded ==
  \A s \in db.students :
    LET cg_part == CgpaPart(s)
        skill_part == Min2(30000, SumLevels(RowsOf(db.skills, s.user_email)) * 300)
        ach_part == Min2(10000, Cardinality(RowsOf(db.achievements, s.user_email)) * 2500)
        cert_part == Min2(10000, Cardinality(RowsOf(db.certifications, s.user_email)) * 2000)
        penalty == Min2(40000, Max2(0, s.arrear_count) * 10000)
    IN  /\ IsFin(cg_part) /\ cg_part.v >= 0 /\ cg_part.v <= 50000
        /\ skill_part >= 0 /\ skill_part <= 30000
        /\ ach_part >= 0 /\ ach_part <= 10000
        /\ cert_part >= 0 /\ cert_part <= 10000
        /\ penalty >= 0 /\ penalty <= 40000


\* C19: in every state each student's scholar_type is one of the two values
\* Day Scholar and Hosteller, whatever scholar_type strings registrations,
\* profile updates and staff edits submitted.
ScholarTypeClosed ==
  \A s \in db.students : s.scholar_type \in {"Day Scholar", "Hosteller"}


\* C20: stored numeric fields stay in their ranges in every state: each
\* student's present_days >= 0 and arrear_count >= 0, and each skill row's
\* levels_completed is an integer with 0 <= levels_completed <= 10, for any
\* submitted values (negative, above 10, fractional, empty or unparseable).
StoredNumbersInRange ==
  /\ \A s \in db.students :
       /\ s.present_days \in Int /\ s.present_days >= 0
       /\ s.arrear_count \in Int /\ s.arrear_count >= 0
  /\ \A k \in db.skills : k.levels_completed \in 0..10

\* a negative present_days and a fractional arrear_count were submitted and
\* stored as 0 and 7, and a skill submitted with 15.5 levels is stored with 10
StoredNumbersInRangeWitness ==
  /\ \E s \in db.students : s.present_days = 0 /\ s.arrear_count = 7
  /\ \E k \in db.skills : k.levels_completed = 10


\* C21: users are created only at registration and are then permanent with an
\* unchanging role: in every step each user of the state before is still a
\* user with the same email and role after it, the users table changes only in
\* a step of register_student or register_staff, and each student row keeps
\* its user_email.
UsersKept(before, after) ==
  \A u \in before.users : \E v \in after.users : v.email = u.email /\ v.role = u.role

JoinKeyKept(before, after) ==
  \A s \in before.students :
    \E t \in after.students : t.id = s.id /\ t.user_email = s.user_email

ByRegistration(before, after) ==
  \/ \E f \in RegisterForms : after = register_student_db(before, f)
  \/ \E f \in StaffRegisterForms : after = register_staff_db(before, f)

UsersPermanent ==
  [][/\ UsersKept(db, db')
     /\ JoinKeyKept(db, db')
     /\ db'.users # db.users => ByRegistration(db, db')]_vars

\* a student and a staff member are registered, and the student's profile and
\* skills have been written since
UsersPermanentWitness ==
  /\ \E u \in db.users : u.role = "staff"
  /\ \E s \in db.students :
       /\ \E u \in db.users : u.email = s.user_email /\ u.role = "student"
       /\ s.scholar_type = "Hosteller" /\ s.present_days = 0
       /\ RowsOf(db.skills, s.user_email) # {}


\* C22: no interleaving of two requests on the same student leaves a stale
\* score: once the requests have completed (no request is between its commit
\* and its score write, and no recompute failed), the stored placement_score of
\* the student a request has just written equals the formula over the finally
\* persisted row, skills, achievements and certifications.
RequestsCompleted ==
  /\ \A c \in DOMAIN conns : conns[c].pc \in {"idle", "responded"} /\ ~conns[c].refresh_failed
  /\ \E c \in DOMAIN conns : conns[c].pc = "responded"

NoLostScoreUpdate ==
  RequestsCompleted =>
    \A c \in DOMAIN conns :
      conns[c].pc = "responded" =>
        \A t \in StudentByEmail(db, conns[c].email) :
          t.placement_score = calc_placement_score(db, t.user_email, t)


\* C23: no orphan child rows: in every state each skill, achievement and
\* certification row has the student_email of an existing student row's
\* user_email.
HasStudent(d, row) == \E s \in d.students : s.user_email = row.student_email

NoOrphanRows ==
  \A row \in db.skills \cup db.achievements \cup db.certifications : HasStudent(db, row)

\* two students are registered and one of them has a child row
NoOrphanRowsWitness ==
  /\ Cardinality(db.students) = 2
  /\ \E row \in db.skills \cup db.achievements \cup db.certifications : HasStudent(db, row)


\* C24: an operation acting on student A (a student-portal request under A's
\* session, or a staff edit, skill add or skill delete on A's id) leaves every
\* other student B's row, placement_score included, and every skill,
\* achievement and certification row of B unchanged.
OthersUntouched(before, after, email) ==
  \A b \in before.students :
    b.user_email # email =>
      /\ b \in after.students
      /\ StudentByEmail(after, b.user_email) = {b}
      /\ RowsOf(after.skills, b.user_email) = RowsOf(before.skills, b.user_email)
      /\ RowsOf(after.achievements, b.user_email) = RowsOf(before.achievements, b.user_email)
      /\ RowsOf(after.certifications, b.user_email)
           = RowsOf(before.certifications, b.user_email)

PerStudentIsolation ==
  \A sess \in Cookies(db) :
    /\ require_role(sess, "student") =>
         \A f \in StudentForms :
           OthersUntouched(db, student_portal_db(db, sess, f), sess.email)
    /\ require_role(sess, "staff") =>
         \A a \in db.students, f \in StaffForms :
           OthersUntouched(db, staff_student_portal_db(db, sess, a.id, f), a.user_email)

\* student B has a child row, and requests on student A under A's session and
\* under a staff session change A's data
PerStudentIsolationWitness ==
  \E a \in db.students, b \in db.students :
    /\ a.user_email # b.user_email
    /\ RowsOf(db.skills, b.user_email) # {}
    /\ \E sess \in Cookies(db), f \in StudentForms :
         /\ require_role(sess, "student") /\ sess.email = a.user_email
         /\ student_portal_db(db, sess, f) # db
    /\ \E sess \in Cookies(db), f \in StaffForms :
         /\ require_role(sess, "staff")
         /\ staff_student_portal_db(db, sess, a.id, f) # db


\* C25: a request to the student portal without a session of role student, or
\* to the staff dashboard or a staff student portal without a session of role
\* staff, is redirected to login and leaves every table as it was; a login
\* changes the session only when its email, role and password match a stored
\* user, and then to that user's role and email; logout clears the session.
MatchesUser(f, u) ==
  /\ u.email = Lower(Strip(f.email))
  /\ u.role = f.role
  /\ check_password_hash(u.password_hash, f.password)

RoleGate ==
  \A sess \in Cookies(db) :
    /\ ~(sess.role = "student") =>
         \A f \in StudentForms \cup {GetForm}, today \in Todays :
           /\ student_portal_db(db, sess, f) = db
           /\ student_portal_page(db, sess, f, today) = Redirect("/")
    /\ ~(sess.role = "staff") =>
         /\ staff_dashboard_page(db, sess) = Redirect("/")
         /\ \A sid \in SidInputs(db), f \in StaffForms \cup {GetForm}, today \in Todays :
              /\ staff_student_portal_db(db, sess, sid, f) = db
              /\ staff_student_portal_page(db, sess, sid, f, today) = Redirect("/")
    /\ \A f \in LoginForms :
         LET after == login_session(db, sess, f)
         IN  after # sess =>
               \E u \in db.users :
                 MatchesUser(f, u) /\ after = [role |-> u.role, email |-> u.email]
    /\ sess.role # "" => \E u \in db.users : u.email = sess.email /\ u.role = sess.role
    /\ logout_session(sess) = NoSession
    /\ logout_session(sess).role \notin {"student", "staff"}

\* a student and a staff member hold sessions; the student's academics form
\* changes the tables under the student's session and a staff edit does under
\* the staff session, while each is turned away from the other's pages
RoleGateWitness ==
  \E s1 \in Cookies(db), s2 \in Cookies(db) :
    /\ s1.role = "student" /\ s2.role = "staff"
    /\ \E f \in StudentForms :
         student_portal_db(db, s1, f) # db /\ student_portal_db(db, s2, f) = db
    /\ \E sid \in SidInputs(db), f \in StaffForms :
         /\ staff_student_portal_db(db, s2, sid, f) # db
         /\ staff_student_portal_db(db, s1, sid, f) = db

====
